---- MODULE Spec2Model ----
(***************************************************************************)
(* Model of src/src/board.rs: Size, Fields, Multipliers, Board and the     *)
(* FieldCreateError returned by Fields::new.                               *)
(*                                                                         *)
(* A client of the module is modelled as a sequence of calls.  Memory is a *)
(* heap of f32 buffers: the caller's array lives at SrcAddr, a Vec<f32> is *)
(* the address of the buffer it owns.  usize is UsizeBits wide; an         *)
(* overflowing multiplication panics when the build has overflow checks    *)
(* (debug profile) and wraps otherwise (release profile).                  *)
(***************************************************************************)
EXTENDS Integers, Sequences, FiniteSets, TLC

VARIABLES
    overflow_checks, \* build profile: TRUE = overflow checks on (debug)
    pc,              \* "run" or "panicked"
    heap,            \* sequence of f32 buffers; heap[SrcAddr] is the caller's array
    size,            \* Option<Size>: the client's Size value
    size_args,       \* the (w, h) the client passed to Size::new
    multipliers,     \* Option<Multipliers>
    fields,          \* Option<Fields> owned by the client
    board,           \* Option<Board>
    call             \* the last operation: [op, arg, ret]

vars == <<overflow_checks, pc, heap, size, size_args, multipliers, fields, board, call>>

-----------------------------------------------------------------------------
(* Bounds *)

UsizeBits == 3
MaxLen == 2
MaxBufs == 2

-----------------------------------------------------------------------------
(* Value domains *)

UsizeModulus == 2 ^ UsizeBits
Usize == 0 .. (UsizeModulus - 1)

\* f32 values are carried as opaque bit patterns
F32Samples == {"1.5", "NaN"}

U32Samples == {0, 1024}

MinOf(a, b) == IF a < b THEN a ELSE b

\* slice lengths are usize values
Arrays == UNION {[1 .. n -> F32Samples] : n \in 0 .. MinOf(MaxLen, UsizeModulus - 1)}

None == <<>>
Some(x) == <<x>>

SrcAddr == 1

-----------------------------------------------------------------------------
(* Size *)

Size_new(w, h) == [w |-> w, h |-> h]

Size_size_swapped(s) == <<s.h, s.w>>

Size_size(s) == <<s.w, s.h>>

Size_len_sum(s) == [panic |-> FALSE, v |-> (s.w + s.h) % UsizeModulus]

\* self.w * self.h in usize arithmetic
Size_len(s) ==
    LET p == s.w * s.h IN
    IF p < UsizeModulus THEN [panic |-> FALSE, v |-> p]
    ELSE IF overflow_checks THEN [panic |-> TRUE, v |-> 0]
    ELSE [panic |-> FALSE, v |-> p % UsizeModulus]

Size_stride_h(s) == s.h

Size_stride(s) == s.w

-----------------------------------------------------------------------------
(* Multipliers *)

Multipliers_new_truncated(light) == [light |-> light % 256]

Multipliers_new(light) == [light |-> light]

-----------------------------------------------------------------------------
(* Fields *)

to_vec_alias(h, p) == [heap |-> h, ptr |-> p]

\* slice.to_vec(): a fresh buffer holding a copy of the slice
to_vec(h, p) == [heap |-> Append(h, h[p]), ptr |-> Len(h) + 1]

Fields_new_expected_len(s, h, p) ==
    LET len == Size_len(s) IN
    IF len.panic THEN [tag |-> "Panic", val |-> None, heap |-> h]
    ELSE IF Len(h[p]) # len.v
    THEN [tag |-> "Err",
          val |-> Some([name |-> "Light", len |-> len.v, size |-> s]),
          heap |-> h]
    ELSE LET light == to_vec(h, p) IN
         [tag |-> "Ok", val |-> Some([size |-> s, light |-> light.ptr]), heap |-> light.heap]

Fields_new_inverted(s, h, p) ==
    LET len == Size_len(s) IN
    IF len.panic THEN [tag |-> "Panic", val |-> None, heap |-> h]
    ELSE IF Len(h[p]) = len.v
    THEN [tag |-> "Err",
          val |-> Some([name |-> "Light", len |-> Len(h[p]), size |-> s]),
          heap |-> h]
    ELSE LET light == to_vec(h, p) IN
         [tag |-> "Ok", val |-> Some([size |-> s, light |-> light.ptr]), heap |-> light.heap]

Fields_new_nonempty(s, h, p) ==
    LET len == Size_len(s) IN
    IF len.panic THEN [tag |-> "Panic", val |-> None, heap |-> h]
    ELSE IF Len(h[p]) # len.v \/ Len(h[p]) = 0
    THEN [tag |-> "Err",
          val |-> Some([name |-> "Light", len |-> Len(h[p]), size |-> s]),
          heap |-> h]
    ELSE LET light == to_vec(h, p) IN
         [tag |-> "Ok", val |-> Some([size |-> s, light |-> light.ptr]), heap |-> light.heap]

\* Fields::new(size, light) with light = &heap[p]
Fields_new(s, h, p) ==
    LET len == Size_len(s) IN
    IF len.panic THEN [tag |-> "Panic", val |-> None, heap |-> h]
    ELSE IF Len(h[p]) # len.v
    THEN [tag |-> "Err",
          val |-> Some([name |-> "Light", len |-> Len(h[p]), size |-> s]),
          heap |-> h]
    ELSE LET light == to_vec(h, p) IN
         [tag |-> "Ok", val |-> Some([size |-> s, light |-> light.ptr]), heap |-> light.heap]

-----------------------------------------------------------------------------
(* Board *)

Board_new_default(m, f) == [multipliers |-> [light |-> 0], fields |-> f]

Board_new(m, f) == [multipliers |-> m, fields |-> f]

-----------------------------------------------------------------------------
(* Initial state: nothing constructed, the caller holds one array *)

Init ==
    /\ overflow_checks \in BOOLEAN
    /\ pc = "run"
    /\ \E a \in Arrays : heap = <<a>>
    /\ size = None
    /\ size_args = None
    /\ multipliers = None
    /\ fields = None
    /\ board = None
    /\ call = [op |-> "start", arg |-> None, ret |-> None]

-----------------------------------------------------------------------------
(* Operations *)

SizeNew(w, h) ==
    /\ pc = "run"
    /\ size = None
    /\ size' = Some(Size_new(w, h))
    /\ size_args' = Some(<<w, h>>)
    /\ call' = [op |-> "Size::new", arg |-> Some(<<w, h>>), ret |-> size']
    /\ UNCHANGED <<overflow_checks, pc, heap, multipliers, fields, board>>

SizeSize ==
    /\ pc = "run"
    /\ size # None
    /\ call' = [op |-> "Size::size", arg |-> size, ret |-> Some(Size_size(size[1]))]
    /\ UNCHANGED <<overflow_checks, pc, heap, size, size_args, multipliers, fields, board>>

SizeLen ==
    /\ pc = "run"
    /\ size # None
    /\ LET r == Size_len(size[1]) IN
        /\ pc' = IF r.panic THEN "panicked" ELSE "run"
        /\ call' = [op |-> "Size::len", arg |-> size, ret |-> Some(r)]
    /\ UNCHANGED <<overflow_checks, heap, size, size_args, multipliers, fields, board>>

SizeStride ==
    /\ pc = "run"
    /\ size # None
    /\ call' = [op |-> "Size::stride", arg |-> size, ret |-> Some(Size_stride(size[1]))]
    /\ UNCHANGED <<overflow_checks, pc, heap, size, size_args, multipliers, fields, board>>

MultipliersNew(n) ==
    /\ pc = "run"
    /\ multipliers = None
    /\ multipliers' = Some(Multipliers_new(n))
    /\ call' = [op |-> "Multipliers::new", arg |-> Some(n), ret |-> multipliers']
    /\ UNCHANGED <<overflow_checks, pc, heap, size, size_args, fields, board>>

FieldsNew ==
    /\ pc = "run"
    /\ size # None
    /\ fields = None
    /\ Len(heap) < MaxBufs
    /\ LET r == Fields_new(size[1], heap, SrcAddr) IN
        /\ pc' = IF r.tag = "Panic" THEN "panicked" ELSE "run"
        /\ heap' = r.heap
        /\ fields' = IF r.tag = "Ok" THEN r.val ELSE None
        /\ call' = [op |-> "Fields::new",
                    arg |-> Some([size |-> size[1], light |-> heap[SrcAddr]]),
                    ret |-> Some([tag |-> r.tag, val |-> r.val])]
    /\ UNCHANGED <<overflow_checks, size, size_args, multipliers, board>>

\* the light slice is only borrowed for the call: the caller may write to
\* its array afterwards
CallerWrite(i, v) ==
    /\ pc = "run"
    /\ i \in 1 .. Len(heap[SrcAddr])
    /\ heap' = [heap EXCEPT ![SrcAddr][i] = v]
    /\ call' = [op |-> "caller_write", arg |-> None, ret |-> None]
    /\ UNCHANGED <<overflow_checks, pc, size, size_args, multipliers, fields, board>>

BoardNew ==
    /\ pc = "run"
    /\ multipliers # None
    /\ fields # None
    /\ board = None
    /\ board' = Some(Board_new(multipliers[1], fields[1]))
    /\ fields' = None     \* moved into the board
    /\ call' = [op |-> "Board::new", arg |-> Some(<<multipliers[1], fields[1], heap[fields[1].light]>>),
                ret |-> board']
    /\ UNCHANGED <<overflow_checks, pc, heap, size, size_args, multipliers>>

\* pub light: Vec<f32> -- fields.light.push(v)
FieldsLightPush(v) ==
    /\ pc = "run"
    /\ fields # None
    /\ Len(heap[fields[1].light]) < MaxLen
    /\ heap' = [heap EXCEPT ![fields[1].light] = Append(@, v)]
    /\ call' = [op |-> "fields.light.push", arg |-> Some(v), ret |-> None]
    /\ UNCHANGED <<overflow_checks, pc, size, size_args, multipliers, fields, board>>

Next ==
    \/ \E w \in Usize, h \in Usize : SizeNew(w, h)
    \/ SizeSize
    \/ SizeLen
    \/ SizeStride
    \/ \E n \in U32Samples : MultipliersNew(n)
    \/ FieldsNew
    \/ \E i \in 1 .. MaxLen, v \in F32Samples : CallerWrite(i, v)
    \/ BoardNew
    \/ \E v \in F32Samples : FieldsLightPush(v)

Spec == Init /\ [][Next]_vars

-----------------------------------------------------------------------------
(* Properties *)

Arg == call.arg[1]
Ret == call.ret[1]

\* light.len() == size.len() for one Fields value
FieldsValid(f) ==
    LET len == Size_len(f.size) IN
    ~len.panic /\ Len(heap[f.light]) = len.v

\* the linear index of cell (x, y) under a row stride
Index(stride, x, y) == y * stride + x

Cells(s) == (0 .. (s.w - 1)) \X (0 .. (s.h - 1))

RowMajorBijection(s, stride, len) ==
    /\ stride = s.w
    /\ \A c \in Cells(s) : Index(stride, c[1], c[2]) < len
    /\ \A c \in Cells(s), d \in Cells(s) :
           Index(stride, c[1], c[2]) = Index(stride, d[1], d[2]) => c = d
    /\ \A i \in 0 .. (len - 1) : \E c \in Cells(s) : Index(stride, c[1], c[2]) = i

\* C1: when the array's length equals size.len(), Fields::new returns Ok and
\* the Fields holds the same size and a light sequence equal to the array,
\* element for element.
C1_FieldsNewRoundTrip ==
    (/\ call.op = "Fields::new"
     /\ ~Size_len(Arg.size).panic
     /\ Len(Arg.light) = Size_len(Arg.size).v)
    => /\ Ret.tag = "Ok"
       /\ pc = "run"
       /\ fields = Ret.val
       /\ fields[1].size = Arg.size
       /\ heap[fields[1].light] = Arg.light

C1_Witness ==
    /\ call.op = "Fields::new"
    /\ Ret.tag = "Ok"
    /\ Arg.size = [w |-> 1, h |-> 2]
    /\ heap[fields[1].light] = <<"1.5", "NaN">>

\* C2: when the array's length differs from size.len(), Fields::new returns
\* FieldCreateError::Size with name "Light", len the array's length and size
\* the Size passed in, and no Fields exists.
C2_FieldsNewSizeError ==
    (/\ call.op = "Fields::new"
     /\ ~Size_len(Arg.size).panic
     /\ Len(Arg.light) # Size_len(Arg.size).v)
    => /\ Ret.tag = "Err"
       /\ pc = "run"
       /\ Ret.val = Some([name |-> "Light", len |-> Len(Arg.light), size |-> Arg.size])
       /\ fields = None

C2_Witness ==
    /\ call.op = "Fields::new"
    /\ Ret.tag = "Err"
    /\ Arg.size = [w |-> 2, h |-> 1]
    /\ Len(Arg.light) = 1
    /\ Ret.val[1].len = 1

\* C3: every Fields that exists, the client's or a Board's, has
\* light.len() == size.len() in every reachable state.
C3_FieldsInvariant ==
    /\ fields # None => FieldsValid(fields[1])
    /\ board # None => FieldsValid(board[1].fields)

\* C4 (as claimed): Size::new(w, h).len() is the product w * h for every
\* usize w and h, without wrap-around or abort.
C4_LenIsProduct ==
    call.op = "Size::len"
    => Ret = [panic |-> FALSE, v |-> size_args[1][1] * size_args[1][2]]

\* C4 (amended): Size::new(w, h).len() is the product w * h whenever the
\* product is representable in usize; otherwise the call panics in a build
\* with overflow checks and returns the product modulo 2^UsizeBits in a build
\* without them.
C4_LenIsProductWhenRepresentable ==
    call.op = "Size::len"
    => LET p == size_args[1][1] * size_args[1][2] IN
       IF p < UsizeModulus
       THEN Ret = [panic |-> FALSE, v |-> p] /\ pc = "run"
       ELSE IF overflow_checks
            THEN Ret.panic /\ pc = "panicked"
            ELSE Ret = [panic |-> FALSE, v |-> p % UsizeModulus] /\ pc = "run"

C4_Witness ==
    /\ call.op = "Size::len"
    /\ size_args = Some(<<2, 3>>)
    /\ Ret.v = 6

\* C5: Board::new(m, f) returns a Board whose multipliers is m and whose
\* fields is f (same size, same light buffer with the same contents), for
\* every m and f, and never fails.
C5_BoardNewComposes ==
    call.op = "Board::new"
    => /\ pc = "run"
       /\ board = call.ret
       /\ board[1].multipliers = Arg[1]
       /\ board[1].fields = Arg[2]
       /\ heap[board[1].fields.light] = Arg[3]

C5_Witness ==
    /\ call.op = "Board::new"
    /\ board[1].multipliers.light = 1024
    /\ board[1].fields.size = [w |-> 2, h |-> 1]
    /\ heap[board[1].fields.light] = <<"NaN", "1.5">>

\* C6: a write by the caller to the source array leaves the light sequence
\* held by an existing Fields (the client's or a Board's) unchanged.
C6_DefensiveCopy ==
    [][call'.op = "caller_write"
       => /\ fields # None
             => fields' = fields /\ heap'[fields[1].light] = heap[fields[1].light]
          /\ board # None
             => board' = board
                /\ heap'[board[1].fields.light] = heap[board[1].fields.light]]_vars

C6_Witness ==
    /\ call.op = "caller_write"
    /\ fields # None
    /\ FieldsValid(fields[1])
    /\ Len(heap[SrcAddr]) = 2
    /\ heap[fields[1].light] # heap[SrcAddr]

\* C7: size() returns the (w, h) given to Size::new, also after len(),
\* stride(), size(), Fields::new and Board::new have used the Size or copies
\* of it; the copies held by Fields and Board carry the same (w, h).
C7_SizeImmutable ==
    /\ size # None => Size_size(size[1]) = size_args[1]
    /\ call.op = "Size::size" => call.ret = size_args
    /\ fields # None => Size_size(fields[1].size) = size_args[1]
    /\ board # None => Size_size(board[1].fields.size) = size_args[1]

C7_Witness ==
    /\ call.op = "Size::size"
    /\ board # None
    /\ Ret = <<1, 2>>

\* C8: Multipliers::new(n).light = n.
C8_MultipliersNewStores ==
    call.op = "Multipliers::new"
    => multipliers = call.ret /\ multipliers[1].light = Arg

C8_Witness ==
    /\ call.op = "Multipliers::new"
    /\ Arg = 1024
    /\ multipliers[1].light = 1024

\* C9 (as claimed): for every Size, stride() = w and (x, y) -> y * stride + x
\* over 0 <= x < w, 0 <= y < h is a bijection onto 0 .. len() - 1.
C9_RowMajorBijection ==
    call.op = "Size::stride"
    => LET len == Size_len(Arg) IN
       ~len.panic /\ RowMajorBijection(Arg, Ret, len.v)

\* C9 (amended): for every Size whose w * h is representable in usize,
\* stride() = w and (x, y) -> y * stride + x over 0 <= x < w, 0 <= y < h is a
\* bijection onto 0 .. len() - 1.
C9_RowMajorBijectionWhenRepresentable ==
    (call.op = "Size::stride" /\ Arg.w * Arg.h < UsizeModulus)
    => LET len == Size_len(Arg) IN
       ~len.panic /\ RowMajorBijection(Arg, Ret, len.v)

C9_Witness ==
    /\ call.op = "Size::stride"
    /\ Arg = [w |-> 2, h |-> 3]
    /\ Ret = 2

\* C10: for a Size with w = 0 or h = 0, len() = 0, Fields::new with an empty
\* array returns Ok with an empty light sequence, and Fields::new with a
\* non-empty array returns FieldCreateError::Size.
C10_ZeroDimension ==
    (call.op = "Fields::new" /\ (Arg.size.w = 0 \/ Arg.size.h = 0))
    => /\ Size_len(Arg.size) = [panic |-> FALSE, v |-> 0]
       /\ pc = "run"
       /\ IF Arg.light = <<>>
          THEN /\ Ret.tag = "Ok"
               /\ fields = Ret.val
               /\ fields[1].size = Arg.size
               /\ heap[fields[1].light] = <<>>
          ELSE /\ Ret.tag = "Err"
               /\ Ret.val = Some([name |-> "Light", len |-> Len(Arg.light), size |-> Arg.size])
               /\ fields = None

C10_Witness ==
    /\ call.op = "Fields::new"
    /\ Arg.size = [w |-> 0, h |-> 3]
    /\ Arg.light = <<>>
    /\ Ret.tag = "Ok"
    /\ heap[fields[1].light] = <<>>

====
